---- MODULE Spec2Model ----
(***************************************************************************)
(* Model of quiz_app_mvp_ins/app.py: the document-to-question extraction   *)
(* pipeline (normalize_spaces .. parse_questions), the sqlite store        *)
(* (question / attempt / wrongbook) and the QuizApp handlers.              *)
(*                                                                         *)
(* Text is a sequence of characters; a character is a one-element string.  *)
(* Non-ASCII characters of the source are written with ASCII names:        *)
(*   "DUN" = the ideographic comma, "FLP"/"FRP" = full-width parentheses,  *)
(*   "FCOLON" = full-width colon, "NBSP" = U+00A0, "VT" = \v,              *)
(*   "da" "an" = the two characters of the answer marker, "zheng" "que"    *)
(*   "can" "kao" = its longer forms, "jie" "xi" = the analysis marker,     *)
(*   "dui" / "cuo" = right / wrong, "zi" = any other CJK character,         *)
(*   "shuo" = the text of an analysis line,                                *)
(*   "LB" / "RB" = the lenticular brackets of the passage prefix.           *)
(***************************************************************************)
EXTENDS Integers, Sequences, FiniteSets, TLC

VARIABLES
  pc,          \* position of the run being modelled
  plain_text,  \* parse_questions / normalize_spaces: the text handed in
  text,        \* the normalized text
  retext,      \* the normalized text normalized once more
  markers,     \* parse_questions: the section markers
  ms,          \* parse_questions: the QSTART matches
  blocks,      \* parse_questions: the (start, end, number) blocks
  out,         \* parse_questions: the records emitted so far
  bi,          \* parse_questions: index of the next block of the loop
  args,        \* arguments of the function call being modelled
  ret,         \* its return value
  question,    \* table question: the rows in id order (id = index)
  attempt,     \* table attempt: <<>> or its newest row, column is_correct
               \* (older rows and the other columns are never read back)
  wrongbook,   \* table wrongbook: question_id -> [streak_correct, last_ts]
  now,         \* the newest value now_ts() has returned
  mode_var,    \* QuizApp.mode_var
  shuffle_var, \* QuizApp.shuffle_var
  qids,        \* QuizApp.qids
  idx,         \* QuizApp.idx (0-based, as in the source)
  current,     \* QuizApp.current: the id of the question loaded, or NoQuestion
  consec       \* history: per question, the judged-correct wrongbook-mode attempts in a row

vars == <<pc, plain_text, text, retext, markers, ms, blocks, out, bi, args, ret,
          question, attempt, wrongbook, now, mode_var, shuffle_var, qids, idx, current,
          consec>>

appVars == <<question, attempt, wrongbook, now, mode_var, shuffle_var, qids, idx, current,
             consec>>

parseVars == <<plain_text, text, retext, markers, ms, blocks, out, bi>>

callVars == <<args, ret>>

None == "None"

\* self.current is None: no question loaded (the ids of table question start at 1)
NoQuestion == 0

ParseIdle ==
  /\ plain_text = <<>> /\ text = <<>> /\ retext = <<>>
  /\ markers = <<>> /\ ms = <<>> /\ blocks = <<>> /\ out = <<>> /\ bi = 0

CallIdle == args = None /\ ret = None

AppIdle ==
  /\ question = <<>> /\ attempt = <<>> /\ wrongbook = <<>> /\ now = 1
  /\ mode_var = "normal" /\ shuffle_var = FALSE /\ qids = <<>> /\ idx = 0
  /\ current = NoQuestion /\ consec = <<>>

(***************************************************************************)
(* Bounds                                                                  *)
(***************************************************************************)
MaxRawLen == 6      \* characters of a raw text given to normalize_spaces

MaxDocLines == 3    \* lines of a document given to parse_questions

MaxBlockLines == 3  \* lines after the first line of a block given to parse_block_common

MaxAnswerLen == 2   \* characters of an answer given to infer_qtype

MaxSubs == 2        \* sub-questions of a reading block

MaxQuestions == 2   \* rows of table question

(***************************************************************************)
(* Character classes (Python's re / str semantics)                         *)
(***************************************************************************)
Digits == {"0", "1", "2", "3", "4", "5", "6", "7", "8", "9"}

\* characters matched by \s and stripped by str.strip()/rstrip()
Whitespace == {" ", "\n", "\t", "\r", "\f", "VT", "NBSP"}

\* s[i..j] as a sequence, empty when i > j (Python slice s[i-1:j])
Slice(s, i, j) == IF i > j THEN <<>> ELSE SubSeq(s, i, j)

\* str.rstrip(): drop trailing whitespace
RECURSIVE RStrip(_)
RStrip(s) ==
  IF Len(s) > 0 /\ s[Len(s)] \in Whitespace THEN RStrip(Slice(s, 1, Len(s) - 1)) ELSE s

\* str.lstrip(): drop leading whitespace
RECURSIVE LStrip(_)
LStrip(s) ==
  IF Len(s) > 0 /\ s[1] \in Whitespace THEN LStrip(Tail(s)) ELSE s

\* str.strip()
Strip(s) == LStrip(RStrip(s))

\* s.split("\n"): the list of lines, always at least one
RECURSIVE SplitNL(_, _, _)
SplitNL(s, i, cur) ==
  IF i > Len(s) THEN <<cur>>
  ELSE IF s[i] = "\n" THEN <<cur>> \o SplitNL(s, i + 1, <<>>)
  ELSE SplitNL(s, i + 1, Append(cur, s[i]))

SplitLines(s) == SplitNL(s, 1, <<>>)

\* sep.join(parts)
RECURSIVE Join(_, _)
Join(parts, sep) ==
  IF Len(parts) = 0 THEN <<>>
  ELSE IF Len(parts) = 1 THEN parts[1]
  ELSE parts[1] \o sep \o Join(Tail(parts), sep)

(***************************************************************************)
(* normalize_spaces                                                        *)
(***************************************************************************)
\* re.sub(r"\r\n?", "\n", s)
RECURSIVE SubCrLf(_, _)
SubCrLf(s, i) ==
  IF i > Len(s) THEN <<>>
  ELSE IF s[i] = "\r"
       THEN <<"\n">> \o SubCrLf(s, IF i + 1 <= Len(s) /\ s[i + 1] = "\n" THEN i + 2 ELSE i + 1)
       ELSE <<s[i]>> \o SubCrLf(s, i + 1)

\* re.sub(r"[\t\f\v]", " ", s)
SubTabs(s) == [i \in 1..Len(s) |-> IF s[i] \in {"\t", "\f", "VT"} THEN " " ELSE s[i]]

\* re.sub(r"[  ]+", " ", s)
RECURSIVE SubSpaceRuns(_, _)
SubSpaceRuns(s, i) ==
  IF i > Len(s) THEN <<>>
  ELSE IF s[i] \in {" ", "NBSP"}
       THEN IF i > 1 /\ s[i - 1] \in {" ", "NBSP"}
            THEN SubSpaceRuns(s, i + 1)
            ELSE <<" ">> \o SubSpaceRuns(s, i + 1)
       ELSE <<s[i]>> \o SubSpaceRuns(s, i + 1)

\* re.sub(r"\n{3,}", "\n\n", s): n = length of the newline run ending before i
RECURSIVE SubNewlineRuns(_, _, _)
SubNewlineRuns(s, i, n) ==
  IF i > Len(s) THEN <<>>
  ELSE IF s[i] = "\n"
       THEN IF n >= 2 THEN SubNewlineRuns(s, i + 1, n + 1)
            ELSE <<"\n">> \o SubNewlineRuns(s, i + 1, n + 1)
       ELSE <<s[i]>> \o SubNewlineRuns(s, i + 1, 0)

\* "\n".join(line.rstrip() for line in s.split("\n")).strip()
RStripLines(s) ==
  LET ls == SplitLines(s)
  IN  Strip(Join([k \in 1..Len(ls) |-> RStrip(ls[k])], <<"\n">>))

normalize_spaces(s) ==
  RStripLines(SubNewlineRuns(SubSpaceRuns(SubTabs(SubCrLf(s, 1)), 1), 1, 0))

(***************************************************************************)
(* Regular-expression primitives.  Positions are 1-based; a match end is   *)
(* the position after the last matched character; 0 means "no match".      *)
(***************************************************************************)
\* (?m)^ : at the start of the text or right after a newline
AtLineStart(s, p) == p = 1 \/ (p - 1 <= Len(s) /\ s[p - 1] = "\n")

\* greedy \s* from p: the first position at or after p that is not whitespace
RECURSIVE SkipWs(_, _)
SkipWs(s, p) == IF p <= Len(s) /\ s[p] \in Whitespace THEN SkipWs(s, p + 1) ELSE p

\* greedy \d* from p
RECURSIVE SkipDigits(_, _)
SkipDigits(s, p) == IF p <= Len(s) /\ s[p] \in Digits THEN SkipDigits(s, p + 1) ELSE p

\* greedy run of characters of class cls from p
RECURSIVE SkipClass(_, _, _)
SkipClass(s, p, cls) == IF p <= Len(s) /\ s[p] \in cls THEN SkipClass(s, p + 1, cls) ELSE p

\* the literal lit occurs in s at position p
LitAt(s, p, lit) ==
  /\ p + Len(lit) - 1 <= Len(s)
  /\ \A k \in 1..Len(lit) : s[p + k - 1] = lit[k]

StartsWith(s, lit) == LitAt(s, 1, lit)

Contains(s, lit) == \E p \in 1..Len(s) + 1 : LitAt(s, p, lit)

\* re.sub(r"\s+", " ", l)
RECURSIVE SubWsRuns(_, _)
SubWsRuns(s, i) ==
  IF i > Len(s) THEN <<>>
  ELSE IF s[i] \in Whitespace
       THEN IF i > 1 /\ s[i - 1] \in Whitespace
            THEN SubWsRuns(s, i + 1)
            ELSE <<" ">> \o SubWsRuns(s, i + 1)
       ELSE <<s[i]>> \o SubWsRuns(s, i + 1)

\* [re.sub(r"\s+", " ", l).strip() for l in t.split("\n")] without the empty ones
CleanLines(t) ==
  LET ls == SplitLines(t)
      cl == [k \in 1..Len(ls) |-> Strip(SubWsRuns(ls[k], 1))]
  IN  SelectSeq(cl, LAMBDA l : Len(l) > 0)

DigitVal(c) ==
  CASE c = "0" -> 0 [] c = "1" -> 1 [] c = "2" -> 2 [] c = "3" -> 3 [] c = "4" -> 4
    [] c = "5" -> 5 [] c = "6" -> 6 [] c = "7" -> 7 [] c = "8" -> 8 [] c = "9" -> 9

DigitChar(n) == <<"0", "1", "2", "3", "4", "5", "6", "7", "8", "9">>[n + 1]

\* int(digits)
RECURSIVE ToInt(_)
ToInt(ds) == IF Len(ds) = 0 THEN 0 ELSE 10 * ToInt(Slice(ds, 1, Len(ds) - 1)) + DigitVal(ds[Len(ds)])

\* str(n) for n >= 0
RECURSIVE ToStr(_)
ToStr(n) == IF n < 10 THEN <<DigitChar(n)>> ELSE ToStr(n \div 10) \o <<DigitChar(n % 10)>>

(***************************************************************************)
(* SECTION_PATTERNS, build_section_markers, section_at                     *)
(***************************************************************************)
CnNumerals == {"yi", "er", "san", "si", "wu", "liu", "qi", "ba", "jiu", "shi"}

\* the alternatives of each pattern, in the order the pattern tries them, and its label
SECTION_PATTERNS ==
  << [alts |-> << <<"dan", "xiang", "xuan", "ze", "ti">>, <<"dan", "xuan", "ti">> >>, name |-> "danxuanti"],
     [alts |-> << <<"duo", "xiang", "xuan", "ze", "ti">>, <<"duo", "xuan", "ti">> >>, name |-> "duoxuanti"],
     [alts |-> << <<"pan", "duan", "ti">> >>, name |-> "panduanti"],
     [alts |-> << <<"tian", "kong", "ti">> >>, name |-> "tiankongti"],
     [alts |-> << <<"yue", "du", "li", "jie">> >>, name |-> "yuedulijie"],
     [alts |-> << <<"jian", "da", "ti">> >>, name |-> "jiandati"] >>

\* \s*$ after position e: the last position reachable over whitespace that is
\* the end of the text or stands before a newline (0 if none)
RECURSIVE LineEndFrom(_, _, _)
LineEndFrom(s, e, best) ==
  LET here == IF e > Len(s) \/ s[e] = "\n" THEN e ELSE best
  IN  IF e <= Len(s) /\ s[e] \in Whitespace THEN LineEndFrom(s, e + 1, here) ELSE here

\* (?m)^\s*(?:[numerals\d]+[DUN\.]\s*)?(?:alt1|alt2)\s*$ tried at p
\* variant: the name need not be followed by the end of the line
SectionMatchEnd_no_line_end(s, p, alts) ==
  IF ~AtLineStart(s, p) THEN 0
  ELSE
    LET q == SkipWs(s, p)
        r == SkipClass(s, q, CnNumerals \cup Digits)
        n == IF r > q /\ r <= Len(s) /\ s[r] \in {"DUN", "."} THEN SkipWs(s, r + 1) ELSE q
        hit == {k \in 1..Len(alts) : LitAt(s, n, alts[k])}
    IN  IF hit = {} THEN 0
        ELSE n + Len(alts[CHOOSE k \in hit : \A j \in hit : k <= j])

SectionMatchEnd(s, p, alts) ==
  IF ~AtLineStart(s, p) THEN 0
  ELSE
    LET q == SkipWs(s, p)
        r == SkipClass(s, q, CnNumerals \cup Digits)
        \* start of the name: after the enumerator when there is one
        n == IF r > q /\ r <= Len(s) /\ s[r] \in {"DUN", "."} THEN SkipWs(s, r + 1) ELSE q
        hit == {k \in 1..Len(alts) : LitAt(s, n, alts[k])}
    IN  IF hit = {} THEN 0
        ELSE \* the first alternative that lets the rest of the pattern match
             LET ends == {k \in hit : LineEndFrom(s, n + Len(alts[k]), 0) # 0}
             IN  IF ends = {} THEN 0
                 ELSE LET kk == CHOOSE k \in ends : \A j \in ends : k <= j
                      IN  LineEndFrom(s, n + Len(alts[kk]), 0)

\* pat.finditer(text): the start positions of the successive matches from pos on
RECURSIVE SectionFindIter(_, _, _)
SectionFindIter(s, pos, alts) ==
  IF pos > Len(s) + 1 THEN <<>>
  ELSE LET e == SectionMatchEnd(s, pos, alts)
       IN  IF e = 0 THEN SectionFindIter(s, pos + 1, alts)
           ELSE <<pos>> \o SectionFindIter(s, IF e = pos THEN pos + 1 ELSE e, alts)

\* mks.sort(key=lambda x: x[0]): insertion of one marker by position (stable)
RECURSIVE SortMarkers(_)
InsertMarker(sorted, m) ==
  LET before == SelectSeq(sorted, LAMBDA x : x[1] <= m[1])
      after == SelectSeq(sorted, LAMBDA x : x[1] > m[1])
  IN  before \o <<m>> \o after

SortMarkers(found) ==
  IF Len(found) = 0 THEN <<>>
  ELSE InsertMarker(SortMarkers(Slice(found, 1, Len(found) - 1)), found[Len(found)])

RECURSIVE CollectMarkers(_, _)
CollectMarkers(s, k) ==
  IF k > Len(SECTION_PATTERNS) THEN <<>>
  ELSE LET starts == SectionFindIter(s, 1, SECTION_PATTERNS[k].alts)
       IN  [i \in 1..Len(starts) |-> <<starts[i], SECTION_PATTERNS[k].name>>]
           \o CollectMarkers(s, k + 1)

build_section_markers(s) == SortMarkers(CollectMarkers(s, 1))

\* the label of the last marker at or before pos, "weizhi" (unknown) if none
RECURSIVE SectionScan(_, _, _, _)
SectionScan(mks, pos, k, cur) ==
  IF k > Len(mks) THEN cur
  ELSE IF mks[k][1] <= pos THEN SectionScan(mks, pos, k + 1, mks[k][2])
  ELSE cur

section_at(mks, pos) == SectionScan(mks, pos, 1, "weizhi")

(***************************************************************************)
(* QSTART and the block list of parse_questions                            *)
(***************************************************************************)
\* (?m)^\s*(\d+)(?:DUN|\.(?!\d))\s*  tried at p: [end, group(1)] or end = 0
QSTART(s, p) ==
  IF ~AtLineStart(s, p) THEN [end |-> 0, group |-> <<>>]
  ELSE
    LET q == SkipWs(s, p)
        r == SkipDigits(s, q)
        sep == /\ r > q
               /\ r <= Len(s)
               /\ \/ s[r] = "DUN"
                  \/ s[r] = "." /\ ~(r + 1 <= Len(s) /\ s[r + 1] \in Digits)
    IN  IF sep THEN [end |-> SkipWs(s, r + 1), group |-> Slice(s, q, r - 1)]
        ELSE [end |-> 0, group |-> <<>>]

\* list(QSTART.finditer(text)): the non-overlapping matches, left to right
RECURSIVE QStartFindIter(_, _)
QStartFindIter(s, pos) ==
  IF pos > Len(s) THEN <<>>
  ELSE LET m == QSTART(s, pos)
       IN  IF m.end = 0 THEN QStartFindIter(s, pos + 1)
           ELSE <<[start |-> pos, end |-> m.end, group |-> m.group]>> \o QStartFindIter(s, m.end)

\* blocks.append((start, end, int(m.group(1)))); end is exclusive
\* variant: the last block stops one character short of the end of the text
BuildBlocks_short(s, found) ==
  [i \in 1..Len(found) |->
     [start |-> found[i].start,
      end |-> IF i + 1 <= Len(found) THEN found[i + 1].start ELSE Len(s),
      number |-> ToInt(found[i].group)]]

BuildBlocks(s, found) ==
  [i \in 1..Len(found) |->
     [start |-> found[i].start,
      end |-> IF i + 1 <= Len(found) THEN found[i + 1].start ELSE Len(s) + 1,
      number |-> ToInt(found[i].group)]]

(***************************************************************************)
(* norm_letters, infer_qtype                                               *)
(***************************************************************************)
LowerAZ == <<"a", "b", "c", "d", "e", "f", "g", "h", "i", "j", "k", "l", "m",
             "n", "o", "p", "q", "r", "s", "t", "u", "v", "w", "x", "y", "z">>

UpperAZ == <<"A", "B", "C", "D", "E", "F", "G", "H", "I", "J", "K", "L", "M",
             "N", "O", "P", "Q", "R", "S", "T", "U", "V", "W", "X", "Y", "Z">>

\* str.upper() on one character
UpperChar(c) ==
  IF \E k \in 1..26 : LowerAZ[k] = c
  THEN UpperAZ[CHOOSE k \in 1..26 : LowerAZ[k] = c]
  ELSE c

\* str.casefold() on one character
FoldChar(c) ==
  IF \E k \in 1..26 : UpperAZ[k] = c
  THEN LowerAZ[CHOOSE k \in 1..26 : UpperAZ[k] = c]
  ELSE c

OptionLetters == <<"A", "B", "C", "D", "E", "F", "G", "H">>

\* "".join(sorted(set(re.sub(r"[^A-H]", "", s.upper()))))
norm_letters(s) ==
  LET up == [i \in 1..Len(s) |-> UpperChar(s[i])]
      letters == SelectSeq(up, LAMBDA c : \E k \in 1..8 : OptionLetters[k] = c)
      present == {letters[i] : i \in 1..Len(letters)}
  IN  SelectSeq(OptionLetters, LAMBDA c : c \in present)

\* variant: the options are looked at before the section
infer_qtype_options_first(section, options, answer) ==
  IF Len(options) > 0
  THEN LET letters == norm_letters(answer)
       IN  IF Len(letters) >= 2 THEN "multi"
           ELSE IF Len(letters) = 1 THEN "single"
           ELSE "choice"
  ELSE IF section = "panduanti" THEN "judge"
  ELSE IF section = "tiankongti" THEN "fill"
  ELSE IF section = "jiandati" THEN "short"
  ELSE "text"

infer_qtype(section, options, answer) ==
  IF section = "panduanti" THEN "judge"
  ELSE IF Len(options) > 0
       THEN LET letters == norm_letters(answer)
            IN  IF Len(letters) >= 2 THEN "multi"
                ELSE IF Len(letters) = 1 THEN "single"
                ELSE "choice"
  ELSE IF section = "tiankongti" THEN "fill"
  ELSE IF section = "jiandati" THEN "short"
  ELSE IF section = "yuedulijie" THEN "text"
  ELSE "text"

(***************************************************************************)
(* judge_to_bool, QuizApp._get_user_answer                                 *)
(***************************************************************************)
TrueWords ==
  { <<"dui">>, <<"zheng", "que">>, <<"CHECK">>, <<"shi_yes">>, <<"T">>,
    <<"T", "R", "U", "E">>, <<"T", "r", "u", "e">> }

FalseWords ==
  { <<"cuo">>, <<"cuo", "wu_err">>, <<"CROSS">>, <<"fou">>, <<"F">>,
    <<"F", "A", "L", "S", "E">>, <<"F", "a", "l", "s", "e">> }

\* "True", "False" or None
judge_to_bool(ans) ==
  LET a == Strip(ans)
  IN  IF Len(a) = 0 THEN None
      ELSE IF a \in TrueWords THEN "True"
      ELSE IF a \in FalseWords THEN "False"
      ELSE IF norm_letters(a) = <<"A">> THEN "True"
      ELSE IF norm_letters(a) = <<"B">> THEN "False"
      ELSE None

\* re.sub(r"\s+", "", s)
RemoveWs(s) == SelectSeq(s, LAMBDA c : c \notin Whitespace)

\* re.sub(r"\s+", " ", s).strip().casefold()
FoldText(s) == LET t == Strip(SubWsRuns(s, 1)) IN [i \in 1..Len(t) |-> FoldChar(t[i])]

\* variant: an empty standard answer is compared like any other
get_user_answer_grades_empty(q, single_selected, multi_selected, text_answer) ==
  LET answer_std == Strip(q.answer)
      judged(user, u, a) == [user |-> user, is_correct |-> IF u = a THEN "1" ELSE "0"]
  IN  IF Len(q.options) > 0
      THEN LET user == IF q.qtype = "multi"
                       THEN SelectSeq(OptionLetters, LAMBDA c : c \in multi_selected)
                       ELSE Strip(single_selected)
           IN  judged(user, norm_letters(user), norm_letters(answer_std))
      ELSE LET user == Strip(text_answer)
           IN  IF q.qtype = "judge"
               THEN IF judge_to_bool(user) # None /\ judge_to_bool(answer_std) # None
                    THEN judged(user, judge_to_bool(user), judge_to_bool(answer_std))
                    ELSE [user |-> user, is_correct |-> None]
               ELSE IF q.qtype = "fill"
                    THEN judged(user, RemoveWs(user), RemoveWs(answer_std))
               ELSE judged(user, FoldText(user), FoldText(answer_std))

\* q: the row; single_selected, multi_selected, text_answer: the widgets' contents
\* returns [user, is_correct] with is_correct "1", "0" or None
get_user_answer(q, single_selected, multi_selected, text_answer) ==
  LET answer_std == Strip(q.answer)
      judged(user, u, a) == [user |-> user, is_correct |-> IF u = a THEN "1" ELSE "0"]
  IN  IF Len(q.options) > 0
      THEN LET user == IF q.qtype = "multi"
                       THEN SelectSeq(OptionLetters, LAMBDA c : c \in multi_selected)
                       ELSE Strip(single_selected)
           IN  IF Len(norm_letters(answer_std)) > 0
               THEN judged(user, norm_letters(user), norm_letters(answer_std))
               ELSE [user |-> user, is_correct |-> None]
      ELSE LET user == Strip(text_answer)
           IN  IF Len(answer_std) = 0 THEN [user |-> user, is_correct |-> None]
               ELSE IF q.qtype = "judge"
                    THEN IF judge_to_bool(user) # None /\ judge_to_bool(answer_std) # None
                         THEN judged(user, judge_to_bool(user), judge_to_bool(answer_std))
                         ELSE [user |-> user, is_correct |-> None]
               ELSE IF q.qtype = "fill"
                    THEN judged(user, RemoveWs(user), RemoveWs(answer_std))
               ELSE judged(user, FoldText(user), FoldText(answer_std))

\* what the user may have typed into the answer box
TypedAnswers == {<<>>, <<"dui">>, <<"cuo">>}

\* the widgets the loaded question shows: option buttons, or the answer box
Selectable(q) == {q.options[i].key : i \in 1..Len(q.options)}

(***************************************************************************)
(* ANS_MARK, ANA_MARK, parse_answer_from_lines, parse_analysis_from_lines  *)
(***************************************************************************)
\* ^(zheng que da an|can kao da an|da an)\s*[:FCOLON]?   as a test on a line
ANS_MARK(l) ==
  \/ StartsWith(l, <<"zheng", "que", "da", "an">>)
  \/ StartsWith(l, <<"can", "kao", "da", "an">>)
  \/ StartsWith(l, <<"da", "an">>)

\* ^(jie xi|da an jie xi)\s*[:FCOLON]?
ANA_MARK(l) ==
  \/ StartsWith(l, <<"jie", "xi">>)
  \/ StartsWith(l, <<"da", "an", "jie", "xi">>)

Colons == {":", "FCOLON"}

\* re.split(r"[:FCOLON]", l, maxsplit=1)
SplitColon(l) ==
  LET at == {k \in 1..Len(l) : l[k] \in Colons}
  IN  IF at = {} THEN <<l>>
      ELSE LET k == CHOOSE k \in at : \A j \in at : k <= j
           IN  <<Slice(l, 1, k - 1), Slice(l, k + 1, Len(l))>>

\* the first index j >= i of a line that is not blank (Len(lines) + 1 if none)
RECURSIVE SkipBlankLines(_, _)
SkipBlankLines(lines, j) ==
  IF j <= Len(lines) /\ Len(Strip(lines[j])) = 0 THEN SkipBlankLines(lines, j + 1) ELSE j

\* variant: the scan always resumes on the line after the marker
RECURSIVE parse_answer_from_lines_resume_after_marker(_, _)
parse_answer_from_lines_resume_after_marker(lines, i) ==
  IF i > Len(lines) THEN [answer |-> <<>>, next |-> Len(lines) + 1]
  ELSE IF ANS_MARK(lines[i])
       THEN LET parts == SplitColon(lines[i])
            IN  IF Len(parts) = 2 /\ Len(Strip(parts[2])) > 0
                THEN [answer |-> Strip(parts[2]), next |-> i + 1]
                ELSE LET j == SkipBlankLines(lines, i + 1)
                     IN  [answer |-> IF j <= Len(lines) THEN Strip(lines[j]) ELSE <<>>,
                          next |-> i + 1]
  ELSE parse_answer_from_lines_resume_after_marker(lines, i + 1)

\* returns [answer, next]; indices are 1-based, so "no marker" gives next = Len(lines) + 1
RECURSIVE parse_answer_from_lines(_, _)
parse_answer_from_lines(lines, i) ==
  IF i > Len(lines) THEN [answer |-> <<>>, next |-> Len(lines) + 1]
  ELSE IF ANS_MARK(lines[i])
       THEN LET parts == SplitColon(lines[i])
            IN  IF Len(parts) = 2 /\ Len(Strip(parts[2])) > 0
                THEN [answer |-> Strip(parts[2]), next |-> i + 1]
                ELSE LET j == SkipBlankLines(lines, i + 1)
                     IN  [answer |-> IF j <= Len(lines) THEN Strip(lines[j]) ELSE <<>>,
                          next |-> j + 1]
  ELSE parse_answer_from_lines(lines, i + 1)

RECURSIVE parse_analysis_from_lines(_, _)
parse_analysis_from_lines(lines, i) ==
  IF i > Len(lines) THEN <<>>
  ELSE IF ANA_MARK(lines[i])
       THEN LET parts == SplitColon(lines[i])
            IN  IF Len(parts) = 2 /\ Len(Strip(parts[2])) > 0
                THEN Strip(parts[2])
                ELSE Strip(Join(Slice(lines, i + 1, Len(lines)), <<" ">>))
  ELSE parse_analysis_from_lines(lines, i + 1)

(***************************************************************************)
(* parse_block_common                                                      *)
(***************************************************************************)
OptionSeps == {"DUN", ".", ")"}

IsOptionLetter(c) == \E k \in 1..8 : OptionLetters[k] = c

\* ^([A-H])[DUN\.)]$
OPT_SINGLE(l) ==
  \/ Len(l) = 2 /\ IsOptionLetter(l[1]) /\ l[2] \in OptionSeps
  \/ Len(l) = 3 /\ IsOptionLetter(l[1]) /\ l[2] \in OptionSeps /\ l[3] = "\n"

\* ^([A-H])[DUN\.)]\s*(.+)$ : group(2), or <<>> when the line does not match
OPT_INLINE_text(l) ==
  IF Len(l) >= 3 /\ IsOptionLetter(l[1]) /\ l[2] \in OptionSeps /\ (\A k \in 3..Len(l) : l[k] # "\n")
  THEN LET q == SkipWs(l, 3)
       IN  IF q <= Len(l) THEN Slice(l, q, Len(l)) ELSE <<l[Len(l)]>>
  ELSE <<>>

OPT_INLINE(l) == Len(OPT_INLINE_text(l)) > 0

\* ^\s*{number}[DUN\.]\s*  tried at p: the match end, 0 if no match
NumberMarkEnd(s, p, number) ==
  LET q == SkipWs(s, p)
      num == ToStr(number)
      r == q + Len(num)
  IN  IF LitAt(s, q, num) /\ r <= Len(s) /\ s[r] \in {"DUN", "."}
      THEN SkipWs(s, r + 1)
      ELSE 0

\* re.sub(rf"^\s*{number_in_source}[DUN\.]\s*", "", line)
StripNumberMark(line, number) ==
  LET e == NumberMarkEnd(line, 1, number)
  IN  IF e = 0 THEN line ELSE Slice(line, e, Len(line))

\* FLP\s*(\d+(?:\.\d+)?)\s*FRP tried at p: [end, group(1)] or end = 0
ScoreMark(s, p) ==
  IF ~(p <= Len(s) /\ s[p] = "FLP") THEN [end |-> 0, group |-> <<>>]
  ELSE
    LET q == SkipWs(s, p + 1)
        r == SkipDigits(s, q)
        f == IF r > q /\ r <= Len(s) /\ s[r] = "." /\ SkipDigits(s, r + 1) > r + 1
             THEN SkipDigits(s, r + 1) ELSE r
        t == SkipWs(s, f)
    IN  IF r > q /\ t <= Len(s) /\ s[t] = "FRP"
        THEN [end |-> t + 1, group |-> Slice(s, q, f - 1)]
        ELSE [end |-> 0, group |-> <<>>]

\* re.search: the leftmost score mark from p on
RECURSIVE ScoreSearch(_, _)
ScoreSearch(s, p) ==
  IF p > Len(s) THEN [end |-> 0, group |-> <<>>]
  ELSE IF ScoreMark(s, p).end # 0 THEN ScoreMark(s, p)
  ELSE ScoreSearch(s, p + 1)

\* re.sub(r"FLP\s*\d+(?:\.\d+)?\s*FRP", "", s)
RECURSIVE RemoveScoreMarks(_, _)
RemoveScoreMarks(s, p) ==
  IF p > Len(s) THEN <<>>
  ELSE IF ScoreMark(s, p).end # 0 THEN RemoveScoreMarks(s, ScoreMark(s, p).end)
  ELSE <<s[p]>> \o RemoveScoreMarks(s, p + 1)

\* drop trailing "0" characters
RECURSIVE DropTrailingZeros(_)
DropTrailingZeros(ds) ==
  IF Len(ds) > 0 /\ ds[Len(ds)] = "0" THEN DropTrailingZeros(Slice(ds, 1, Len(ds) - 1)) ELSE ds

\* float(numeral): the value as <<integer part, fraction digits without trailing zeros>>
ParseFloat(num) ==
  LET dot == {k \in 1..Len(num) : num[k] = "."}
  IN  IF dot = {} THEN <<ToInt(num), <<>> >>
      ELSE LET k == CHOOSE k \in dot : TRUE
           IN  <<ToInt(Slice(num, 1, k - 1)), DropTrailingZeros(Slice(num, k + 1, Len(num)))>>

\* score None (a score is a pair)
NoScore == <<>>

\* the stem loop: the index of the first line that is an answer mark or an option line
RECURSIVE StemEnd(_, _)
StemEnd(lines, i) ==
  IF i > Len(lines) THEN i
  ELSE IF ANS_MARK(lines[i]) \/ OPT_SINGLE(lines[i]) \/ OPT_INLINE(lines[i]) THEN i
  ELSE StemEnd(lines, i + 1)

\* variant: an inline option is put in front of the options found so far
RECURSIVE OptionsScan_prepend(_, _, _)
OptionsScan_prepend(lines, i, options) ==
  IF i > Len(lines) THEN [i |-> i, options |-> options]
  ELSE IF ANS_MARK(lines[i]) THEN [i |-> i, options |-> options]
  ELSE IF OPT_SINGLE(lines[i])
       THEN IF i + 1 <= Len(lines) /\ ~ANS_MARK(lines[i + 1])
            THEN OptionsScan_prepend(lines, i + 2, Append(options, [key |-> lines[i][1], text |-> lines[i + 1]]))
            ELSE OptionsScan_prepend(lines, i + 1, options)
  ELSE IF OPT_INLINE(lines[i])
       THEN OptionsScan_prepend(lines, i + 1, <<[key |-> lines[i][1], text |-> OPT_INLINE_text(lines[i])]>> \o options)
  ELSE OptionsScan_prepend(lines, i + 1, options)

\* the options loop: [i, options] when it stops
RECURSIVE OptionsScan(_, _, _)
OptionsScan(lines, i, options) ==
  IF i > Len(lines) THEN [i |-> i, options |-> options]
  ELSE IF ANS_MARK(lines[i]) THEN [i |-> i, options |-> options]
  ELSE IF OPT_SINGLE(lines[i])
       THEN IF i + 1 <= Len(lines) /\ ~ANS_MARK(lines[i + 1])
            THEN OptionsScan(lines, i + 2, Append(options, [key |-> lines[i][1], text |-> lines[i + 1]]))
            ELSE OptionsScan(lines, i + 1, options)
  ELSE IF OPT_INLINE(lines[i])
       THEN OptionsScan(lines, i + 1, Append(options, [key |-> lines[i][1], text |-> OPT_INLINE_text(lines[i])]))
  ELSE OptionsScan(lines, i + 1, options)

parse_block_common(block_text, number_in_source, section, source_name) ==
  LET lines == CleanLines(block_text)
  IN  IF Len(lines) = 0 THEN <<>>
      ELSE
        LET first0 == Strip(StripNumberMark(lines[1], number_in_source))
            mscore == ScoreSearch(first0, 1)
            score == IF mscore.end # 0 THEN ParseFloat(mscore.group) ELSE NoScore
            first == IF mscore.end # 0 THEN Strip(RemoveScoreMarks(first0, 1)) ELSE first0
            i1 == StemEnd(lines, 2)
            stem_parts == <<first>> \o Slice(lines, 2, i1 - 1)
            os == OptionsScan(lines, i1, <<>>)
            ans == parse_answer_from_lines(lines, os.i)
            analysis == parse_analysis_from_lines(lines, ans.next)
        IN  << [source |-> source_name,
                number_in_source |-> number_in_source,
                section |-> section,
                qtype |-> infer_qtype(section, os.options, ans.answer),
                stem |-> Strip(Join(stem_parts, <<" ">>)),
                options |-> os.options,
                answer |-> Strip(ans.answer),
                analysis |-> Strip(analysis),
                score |-> score] >>

(***************************************************************************)
(* SUBQ_START, split_reading_block                                         *)
(***************************************************************************)
OpenParens == {"FLP", "("}

CloseParens == {"FRP", ")"}

\* (?m)^\s*[FLP\(](\d{1,2})[FRP\)]\s*[DUN\.)]  tried at p: [end, group(1)] or end = 0
\* variant: no separator is required after the closing parenthesis
SUBQ_START_no_separator(s, p) ==
  IF ~AtLineStart(s, p) THEN [end |-> 0, group |-> <<>>]
  ELSE
    LET q == SkipWs(s, p)
        r == SkipDigits(s, q + 1)
    IN  IF /\ q <= Len(s) /\ s[q] \in OpenParens
           /\ r - (q + 1) \in {1, 2}
           /\ r <= Len(s) /\ s[r] \in CloseParens
        THEN [end |-> r + 1, group |-> Slice(s, q + 1, r - 1)]
        ELSE [end |-> 0, group |-> <<>>]

SUBQ_START(s, p) ==
  IF ~AtLineStart(s, p) THEN [end |-> 0, group |-> <<>>]
  ELSE
    LET q == SkipWs(s, p)
        r == SkipDigits(s, q + 1)
        t == SkipWs(s, r + 1)
    IN  IF /\ q <= Len(s) /\ s[q] \in OpenParens
           /\ r - (q + 1) \in {1, 2}
           /\ r <= Len(s) /\ s[r] \in CloseParens
           /\ t <= Len(s) /\ s[t] \in OptionSeps
        THEN [end |-> t + 1, group |-> Slice(s, q + 1, r - 1)]
        ELSE [end |-> 0, group |-> <<>>]

\* list(SUBQ_START.finditer(s))
RECURSIVE SubqFindIter(_, _)
SubqFindIter(s, pos) ==
  IF pos > Len(s) THEN <<>>
  ELSE LET m == SUBQ_START(s, pos)
       IN  IF m.end = 0 THEN SubqFindIter(s, pos + 1)
           ELSE <<[start |-> pos, end |-> m.end, group |-> m.group]>> \o SubqFindIter(s, m.end)

\* re.sub(rf"(?m)^\s*{number}[DUN\.]\s*", "", block_text, count=1): the leftmost
\* line start where the number mark matches is removed
RECURSIVE RemoveFirstNumberMark(_, _, _)
RemoveFirstNumberMark(s, p, number) ==
  IF p > Len(s) THEN s
  ELSE IF AtLineStart(s, p) /\ NumberMarkEnd(s, p, number) # 0
       THEN Slice(s, 1, p - 1) \o Slice(s, NumberMarkEnd(s, p, number), Len(s))
  ELSE RemoveFirstNumberMark(s, p + 1, number)

\* re.sub(r"^\s*[FLP\(]\d+[FRP\)]\s*", "", sub_text)
StripSubMark(s) ==
  LET q == SkipWs(s, 1)
      r == SkipDigits(s, q + 1)
  IN  IF q <= Len(s) /\ s[q] \in OpenParens /\ r > q + 1 /\ r <= Len(s) /\ s[r] \in CloseParens
      THEN Slice(s, SkipWs(s, r + 1), Len(s))
      ELSE s

\* the lines before the first answer mark
RECURSIVE LinesUntilAnswer(_, _)
LinesUntilAnswer(lines, i) ==
  IF i > Len(lines) \/ ANS_MARK(lines[i]) THEN <<>>
  ELSE <<lines[i]>> \o LinesUntilAnswer(lines, i + 1)

PassagePrefix == <<"LB", "yue", "du", "cai", "liao", "RB">>

\* one record of the fan-out: sub-question m of subs, ending where the next one starts
ReadingRecord(b, subs, si, passage, number_in_source, source_name) ==
  LET m == subs[si]
      end == IF si + 1 <= Len(subs) THEN subs[si + 1].start ELSE Len(b) + 1
      sub_text == Strip(StripSubMark(Strip(Slice(b, m.start, end - 1))))
      lines == CleanLines(sub_text)
      ans == parse_answer_from_lines(lines, 1)
      analysis == parse_analysis_from_lines(lines, ans.next)
      stem == Strip(Join(LinesUntilAnswer(lines, 1), <<" ">>))
      tail == <<"(">> \o m.group \o <<")", " ">> \o stem
      full_stem == IF Len(passage) > 0
                   THEN Strip(PassagePrefix \o passage \o <<"\n", "\n">> \o tail)
                   ELSE Strip(tail)
  IN  [source |-> source_name,
       number_in_source |-> number_in_source,
       section |-> "yuedulijie",
       qtype |-> "text",
       stem |-> full_stem,
       options |-> <<>>,
       answer |-> Strip(ans.answer),
       analysis |-> Strip(analysis),
       score |-> NoScore]

split_reading_block(block_text, number_in_source, source_name) ==
  LET b == Strip(RemoveFirstNumberMark(block_text, 1, number_in_source))
      subs == SubqFindIter(b, 1)
  IN  IF Len(subs) = 0
      THEN parse_block_common(block_text, number_in_source, "yuedulijie", source_name)
      ELSE LET passage == Strip(Slice(b, 1, subs[1].start - 1))
           IN  [si \in 1..Len(subs) |->
                  ReadingRecord(b, subs, si, passage, number_in_source, source_name)]

(***************************************************************************)
(* parse_questions                                                         *)
(***************************************************************************)
\* variant: the section is looked up where the block ends
ParseBlock_section_at_end(t, mks, blk, source_name) ==
  LET section == section_at(mks, blk.end)
      block == Strip(Slice(t, blk.start, blk.end - 1))
  IN  IF section = "yuedulijie"
      THEN split_reading_block(block, blk.number, source_name)
      ELSE parse_block_common(block, blk.number, section, source_name)

\* the records of one block: the body of the loop over blocks
ParseBlock(t, mks, blk, source_name) ==
  LET section == section_at(mks, blk.start)
      block == Strip(Slice(t, blk.start, blk.end - 1))
  IN  IF section = "yuedulijie"
      THEN split_reading_block(block, blk.number, source_name)
      ELSE parse_block_common(block, blk.number, section, source_name)

RECURSIVE ParseBlocks(_, _, _, _, _)
ParseBlocks(t, mks, blks, k, source_name) ==
  IF k > Len(blks) THEN <<>>
  ELSE ParseBlock(t, mks, blks[k], source_name) \o ParseBlocks(t, mks, blks, k + 1, source_name)

parse_questions(plain, source_name) ==
  LET t == normalize_spaces(plain)
      mks == build_section_markers(t)
      blks == BuildBlocks(t, QStartFindIter(t, 1))
  IN  ParseBlocks(t, mks, blks, 1, source_name)

(***************************************************************************)
(* Specification SpecNorm: normalize_spaces applied to every raw text of   *)
(* at most MaxRawLen characters, then applied again to its own result.     *)
(***************************************************************************)
RawChars == {"a", " ", "\n", "\t", "\r"}

RawTexts == UNION {[1..n -> RawChars] : n \in 0..MaxRawLen}

InitNorm ==
  /\ pc = "raw"
  /\ plain_text \in RawTexts
  /\ text = <<>> /\ retext = <<>>
  /\ markers = <<>> /\ ms = <<>> /\ blocks = <<>> /\ out = <<>> /\ bi = 0
  /\ CallIdle
  /\ AppIdle

\* text = normalize_spaces(plain_text)            (parse_questions, line 404)
Normalize ==
  /\ pc = "raw"
  /\ text' = normalize_spaces(plain_text)
  /\ pc' = "normalized"
  /\ UNCHANGED <<plain_text, retext, markers, ms, blocks, out, bi, callVars, appVars>>

\* the normalized text handed to normalize_spaces once more
Renormalize ==
  /\ pc = "normalized"
  /\ retext' = normalize_spaces(text)
  /\ pc' = "renormalized"
  /\ UNCHANGED <<plain_text, text, markers, ms, blocks, out, bi, callVars, appVars>>

NextNorm == Normalize \/ Renormalize

SpecNorm == InitNorm /\ [][NextNorm]_vars

\* C1: normalize_spaces is idempotent: normalizing an already normalized
\* text returns it unchanged, for every input text.
C1_Idempotent == pc = "renormalized" => retext = text

(***************************************************************************)
(* Specification SpecSeg: parse_questions, statement by statement, on      *)
(* every document of at most MaxDocLines lines taken from DocLines.        *)
(***************************************************************************)
DocLines ==
  { <<"1", "DUN", "zi">>,                        \* a question start with the ideographic comma
    <<"2", ".", "zi">>,                          \* a question start with a period
    <<"1", "DUN">>,                              \* a question start with nothing after it
    <<" ", "3", "DUN", "zi">>,                   \* an indented question start
    <<"1", ".", "2", ".", "1", " ", "zi">>,      \* an outline number at the start of a line
    <<"zi", " ", "1", ".", "2", ".", "1", " ", "zi">>,  \* an outline number inside a line
    <<>>,                                        \* a blank line
    <<"yue", "du", "li", "jie">>,                \* the reading-comprehension heading
    <<"(", "1", ")", "DUN", "zi">>,              \* a sub-question
    <<"da", "an", "FCOLON", "A">>,               \* an answer line
    <<"0", "1", "DUN", "zi">>,                   \* a question start with a zero-padded number
    <<"pan", "duan", "ti">> }                    \* the true/false heading

Documents ==
  UNION {{Join(ls, <<"\n">>) : ls \in [1..n -> DocLines]} : n \in 1..MaxDocLines}

SourceName == "a.txt"

InitSeg ==
  /\ pc = "raw"
  /\ plain_text \in Documents
  /\ text = <<>> /\ retext = <<>>
  /\ markers = <<>> /\ ms = <<>> /\ blocks = <<>> /\ out = <<>> /\ bi = 0
  /\ CallIdle
  /\ AppIdle

\* markers = build_section_markers(text)                          (line 405)
BuildSectionMarkers ==
  /\ pc = "normalized"
  /\ markers' = build_section_markers(text)
  /\ pc' = "markers"
  /\ UNCHANGED <<plain_text, text, retext, ms, blocks, out, bi, callVars, appVars>>

\* ms = list(QSTART.finditer(text)) and the loop that fills blocks (lines 407-412)
FindBlocks ==
  /\ pc = "markers"
  /\ ms' = QStartFindIter(text, 1)
  /\ blocks' = BuildBlocks(text, ms')
  /\ bi' = 1
  /\ pc' = "blocks"
  /\ UNCHANGED <<plain_text, text, retext, markers, out, callVars, appVars>>

\* one turn of the loop over blocks, section other than reading    (lines 415-421)
ParseCommonBlock ==
  /\ pc = "blocks"
  /\ bi <= Len(blocks)
  /\ section_at(markers, blocks[bi].start) # "yuedulijie"
  /\ out' = out \o ParseBlock(text, markers, blocks[bi], SourceName)
  /\ bi' = bi + 1
  /\ UNCHANGED <<pc, plain_text, text, retext, markers, ms, blocks, callVars, appVars>>

\* one turn of the loop over blocks, section reading               (lines 415-419)
ParseReadingBlock ==
  /\ pc = "blocks"
  /\ bi <= Len(blocks)
  /\ section_at(markers, blocks[bi].start) = "yuedulijie"
  /\ out' = out \o ParseBlock(text, markers, blocks[bi], SourceName)
  /\ bi' = bi + 1
  /\ UNCHANGED <<pc, plain_text, text, retext, markers, ms, blocks, callVars, appVars>>

\* return out                                                      (line 423)
ReturnRecords ==
  /\ pc = "blocks"
  /\ bi > Len(blocks)
  /\ pc' = "done"
  /\ UNCHANGED <<parseVars, callVars, appVars>>

NextSeg ==
  \/ Normalize
  \/ BuildSectionMarkers
  \/ FindBlocks
  \/ ParseCommonBlock
  \/ ParseReadingBlock
  \/ ReturnRecords

SpecSeg == InitSeg /\ [][NextSeg]_vars

Segmented == pc \in {"blocks", "done"}

\* C2: when there is at least one question start, the blocks are contiguous
\* and do not overlap: the first starts at the first match, each ends where
\* the next starts, the last ends at the end of the text, and every position
\* from the first match to the end of the text lies in exactly one block.
C2_Coverage ==
  (Segmented /\ Len(ms) > 0) =>
     /\ Len(blocks) = Len(ms)
     /\ blocks[1].start = ms[1].start
     /\ \A i \in 1..Len(blocks) - 1 : blocks[i].end = blocks[i + 1].start
     /\ blocks[Len(blocks)].end = Len(text) + 1
     /\ \A p \in 1..Len(text) :
          Cardinality({i \in 1..Len(blocks) : blocks[i].start <= p /\ p < blocks[i].end})
            = IF p >= ms[1].start THEN 1 ELSE 0

\* a document with text before the first question start and several blocks
C2_Witness ==
  /\ Segmented
  /\ Len(blocks) >= 2
  /\ blocks[1].start > 1
  /\ blocks[2].start < Len(text)

\* a line that begins, after optional blanks, with digits followed by the
\* ideographic comma or by a period that no digit follows
IsQuestionStartLine(l) ==
  LET q == SkipClass(l, 1, {" "})
      r == SkipClass(l, q, Digits)
  IN  /\ r > q
      /\ r <= Len(l)
      /\ \/ l[r] = "DUN"
         \/ l[r] = "." /\ (r = Len(l) \/ l[r + 1] \notin Digits)

\* C10: every block begins with a genuine question-start line (so none begins
\* at an outline number such as 1.2.1), and there are as many blocks as
\* genuine question-start lines in the text.
C10_QuestionStarts ==
  Segmented =>
     /\ \A i \in 1..Len(blocks) :
          IsQuestionStartLine(SplitLines(Strip(Slice(text, blocks[i].start, blocks[i].end - 1)))[1])
     /\ Len(blocks) =
          Cardinality({n \in 1..Len(SplitLines(text)) : IsQuestionStartLine(SplitLines(text)[n])})

\* no block of the document lies in the reading-comprehension section
NoReadingBlock == \A i \in 1..Len(blocks) : section_at(markers, blocks[i].start) # "yuedulijie"

\* C16: the stem of a block's record does not begin with the block's numeral
\* as it is written in the text (zero-padded forms included) followed by its
\* separator.
C16_NumeralStripped ==
  (pc = "done" /\ NoReadingBlock /\ Len(out) = Len(ms)) =>
     \A i \in 1..Len(out) :
        LET separator == text[SkipWs(text, ms[i].start) + Len(ms[i].group)]
        IN  ~StartsWith(out[i].stem, ms[i].group \o <<separator>>)

\* C18: for a document without reading-comprehension block there is exactly
\* one record per question-start match, in the order of the matches; each has
\* the number its match reads (duplicates and gaps stay as written) and the
\* section in force where its block starts.
C18_OneRecordPerMatch ==
  (pc = "done" /\ NoReadingBlock) =>
     /\ Len(out) = Len(ms)
     /\ \A i \in 1..Len(out) :
          /\ out[i].number_in_source = ToInt(ms[i].group)
          /\ out[i].section = section_at(markers, blocks[i].start)

\* number 3 before number 1, the second under the true/false heading
C18_Witness ==
  /\ pc = "done"
  /\ text = <<"3", "DUN", "zi", "\n", "pan", "duan", "ti", "\n", "1", "DUN", "zi">>
  /\ Len(out) = 2
  /\ out[1].number_in_source = 3 /\ out[1].section = "weizhi"
  /\ out[2].number_in_source = 1 /\ out[2].section = "panduanti"

(***************************************************************************)
(* Specification SpecMark: normalize_spaces and build_section_markers on   *)
(* every document of at most MaxDocLines lines taken from MarkLines.       *)
(***************************************************************************)
MarkLines ==
  { <<"jian", "da", "ti">>,                          \* a heading
    <<"yi", "DUN", "pan", "duan", "ti">>,            \* a heading with an ordinal
    <<"2", ".", " ", "dan", "xiang", "xuan", "ze", "ti">>,  \* a heading with a number
    <<" ", "tian", "kong", "ti">>,                   \* an indented heading
    <<"zi", "jian", "da", "ti", "zi">>,              \* a name inside a longer line
    <<"jian", "da", "ti", "zi">>,                    \* a name followed by text
    <<"1", "DUN", "zi", "pan", "duan", "ti">>,       \* a question that ends with a name
    <<"yi", "DUN">>,                                 \* an ordinal alone
    <<"1", "DUN", "zi">>,                            \* a question
    <<>> }                                           \* a blank line

MarkDocuments ==
  UNION {{Join(ls, <<"\n">>) : ls \in [1..n -> MarkLines]} : n \in 1..MaxDocLines}

InitMark ==
  /\ pc = "raw"
  /\ plain_text \in MarkDocuments
  /\ text = <<>> /\ retext = <<>>
  /\ markers = <<>> /\ ms = <<>> /\ blocks = <<>> /\ out = <<>> /\ bi = 0
  /\ CallIdle
  /\ AppIdle

NextMark == Normalize \/ BuildSectionMarkers

SpecMark == InitMark /\ [][NextMark]_vars

\* every section name, as written in a heading
SectionNames ==
  UNION {{SECTION_PATTERNS[k].alts[a] : a \in 1..Len(SECTION_PATTERNS[k].alts)} :
           k \in 1..Len(SECTION_PATTERNS)}

\* the line without surrounding blanks and without a leading ordinal or
\* number followed by the ideographic comma or a period
WithoutEnumerator(l) ==
  LET t == Strip(l)
      r == SkipClass(t, 1, CnNumerals \cup Digits)
  IN  IF r > 1 /\ r <= Len(t) /\ t[r] \in {"DUN", "."} THEN Strip(Slice(t, r + 1, Len(t))) ELSE t

\* the line consists, after an optional enumerator, of a section name and nothing else
IsHeadingLine(l) == WithoutEnumerator(l) \in SectionNames

\* the label of a heading line
HeadingLabel(l) ==
  LET k == CHOOSE k \in 1..Len(SECTION_PATTERNS) :
             \E a \in 1..Len(SECTION_PATTERNS[k].alts) :
               SECTION_PATTERNS[k].alts[a] = WithoutEnumerator(l)
  IN  SECTION_PATTERNS[k].name

\* the characters the section names are written with
NameChars == UNION {{n[i] : i \in 1..Len(n)} : n \in SectionNames}

\* the text with the characters of section names replaced, in every line
\* that is not a heading, by another character
WithoutNamesInText(t) ==
  LET ls == SplitLines(t)
      masked(l) == [i \in 1..Len(l) |-> IF l[i] \in NameChars THEN "zi" ELSE l[i]]
  IN  Join([k \in 1..Len(ls) |-> IF IsHeadingLine(ls[k]) THEN ls[k] ELSE masked(ls[k])], <<"\n">>)

\* C11: there is one marker per heading line (a line that is, after an
\* optional enumerator, exactly a section name), in order and with its label,
\* and no other marker; a section name inside a longer line makes no marker,
\* so the markers, and with them section_at at every position, are those of
\* the text in which such lines do not hold the name.
C11_HeadingsOnly ==
  pc = "markers" =>
    LET ls == SplitLines(text)
        heads == SelectSeq(ls, IsHeadingLine)
    IN  /\ Len(markers) = Len(heads)
        /\ \A i \in 1..Len(markers) : markers[i][2] = HeadingLabel(heads[i])
        /\ markers = build_section_markers(WithoutNamesInText(text))
        /\ \A p \in 1..Len(text) + 1 :
             section_at(markers, p) = section_at(build_section_markers(WithoutNamesInText(text)), p)

\* a heading, then a line that holds another section name inside text: one
\* marker, and the section at the end of the text is still the heading's
C11_Witness ==
  /\ pc = "markers"
  /\ text = <<"yi", "DUN", "pan", "duan", "ti", "\n", "zi", "jian", "da", "ti", "zi">>
  /\ Len(markers) = 1
  /\ section_at(markers, Len(text)) = "panduanti"

\* C25: under SpecSeg, the name on a heading line of the text is in no field
\* of any record: not in a stem, an option text, an answer or an analysis.
C25_HeadingNotInRecords ==
  pc = "done" =>
    LET heads == SelectSeq(SplitLines(text), IsHeadingLine)
    IN  \A h \in 1..Len(heads), i \in 1..Len(out) :
          LET name == WithoutEnumerator(heads[h])
          IN  /\ ~Contains(out[i].stem, name)
              /\ ~Contains(out[i].answer, name)
              /\ ~Contains(out[i].analysis, name)
              /\ \A o \in 1..Len(out[i].options) : ~Contains(out[i].options[o].text, name)

(***************************************************************************)
(* Specification SpecType: infer_qtype called on every section, on an      *)
(* empty and a non-empty option list, and on every answer of at most       *)
(* MaxAnswerLen characters; then _get_user_answer on the question so       *)
(* classified.                                                             *)
(***************************************************************************)
Sections ==
  {"danxuanti", "duoxuanti", "panduanti", "tiankongti", "yuedulijie", "jiandati", "weizhi"}

OptionLists ==
  { <<>>,
    <<[key |-> "A", text |-> <<"zi">>], [key |-> "B", text |-> <<"zi">>]>> }

AnswerChars == {"A", "B", "a", "I", "dui"}

Answers == UNION {[1..n -> AnswerChars] : n \in 0..MaxAnswerLen}

InitType ==
  /\ pc = "call"
  /\ args \in [section : Sections, options : OptionLists, answer : Answers]
  /\ ret = None
  /\ ParseIdle
  /\ AppIdle

InferQtype ==
  /\ pc = "call"
  /\ ret' = infer_qtype(args.section, args.options, args.answer)
  /\ pc' = "return"
  /\ UNCHANGED <<args, parseVars, appVars>>

\* the question classified is put to the user: _get_user_answer on what the
\* widgets of a question of this kind can hold
GetUserAnswer ==
  /\ pc = "return"
  /\ LET q == [qtype |-> ret, options |-> args.options, answer |-> args.answer]
     IN  \E single_selected \in IF q.qtype # "multi" THEN {<<>>} \cup {<<c>> : c \in Selectable(q)} ELSE {<<>>},
            multi_selected \in IF q.qtype = "multi" THEN SUBSET Selectable(q) ELSE {{}},
            text_answer \in IF Len(q.options) = 0 THEN TypedAnswers ELSE {<<>>} :
           LET ua == get_user_answer(q, single_selected, multi_selected, text_answer)
           IN  ret' = [qtype |-> ret, user |-> ua.user, is_correct |-> ua.is_correct]
  /\ pc' = "judged"
  /\ UNCHANGED <<args, parseVars, appVars>>

NextType == InferQtype \/ GetUserAnswer

SpecType == InitType /\ [][NextType]_vars

\* the number of distinct letters A-H in the answer, upper and lower case alike
LetterCount(a) ==
  Cardinality({k \in 1..8 : \E i \in 1..Len(a) : a[i] = UpperAZ[k] \/ a[i] = LowerAZ[k]})

\* C3: the qtype follows the decision table: judge for the section of
\* true/false questions whatever the options and the answer; else, with
\* options, multi / single / choice for 2 or more / exactly 1 / no letters
\* A-H in the answer; else fill for the fill-in section, short for the
\* short-answer section, text for every other section.
C3_DecisionTable ==
  pc = "return" =>
    ret = IF args.section = "panduanti" THEN "judge"
          ELSE IF args.options # <<>>
               THEN (IF LetterCount(args.answer) >= 2 THEN "multi"
                     ELSE IF LetterCount(args.answer) = 1 THEN "single"
                     ELSE "choice")
          ELSE IF args.section = "tiankongti" THEN "fill"
          ELSE IF args.section = "jiandati" THEN "short"
          ELSE "text"

\* a lower-case, unsorted two-letter answer classified as multi
C3_Witness ==
  /\ pc = "return"
  /\ args.answer = <<"B", "a">>
  /\ args.options # <<>>
  /\ args.section = "jiandati"
  /\ ret = "multi"

\* C14: a judge question is graded by truth value: when what the user gave
\* and the standard answer both map to a truth value under judge_to_bool, the
\* attempt is judged correct if the two values are equal and wrong if not,
\* with or without options.
C14_JudgeByTruthValue ==
  ( /\ pc = "judged"
    /\ ret.qtype = "judge"
    /\ judge_to_bool(ret.user) # None
    /\ judge_to_bool(args.answer) # None )
  => ret.is_correct = IF judge_to_bool(ret.user) = judge_to_bool(args.answer) THEN "1" ELSE "0"

(***************************************************************************)
(* Specification SpecRead: split_reading_block called on every block made  *)
(* of a passage of Passages and of 1..MaxSubs sub-questions of SubSpecs.    *)
(***************************************************************************)
Passages ==
  { <<>>,
    <<"cai", "liao">>,
    <<"cai", "liao", " ", "(", "2", "0", ".", "0", ")", " ", "zi">>,
    \* three lines: a score at the start of a line, text, a full-width score
    <<"(", "2", "0", ".", "0", ")", "\n", "zi", "\n", "FLP", "2", "FRP", " ", "zi">> }

\* style: how the marker is written; k: its ordinal; layout: where the answer stands
SubSpecs ==
  { sp \in [style : {"full", "half"}, k : {<<"1">>, <<"2">>},
            layout : {"none", "sameline", "nextline", "midline"},
            value : {<<"dui">>, <<"cuo">>}] :
      sp.layout = "none" => sp.value = <<"dui">> }

MarkerText(sp) ==
  IF sp.style = "full" THEN <<"FLP">> \o sp.k \o <<"FRP", "DUN">>
  ELSE <<"(">> \o sp.k \o <<")", " ", ".">>

SubText(sp) ==
  MarkerText(sp) \o <<"wen">> \o
    CASE sp.layout = "none" -> <<>>
      [] sp.layout = "sameline" -> <<"\n", "da", "an", "FCOLON">> \o sp.value
      [] sp.layout = "nextline" -> <<"\n", "da", "an", "\n">> \o sp.value
      [] sp.layout = "midline" -> <<" ", "da", "an", "FCOLON">> \o sp.value

BlockText(passage, subs) ==
  <<"1", "DUN">> \o passage \o <<"\n">> \o Join([i \in 1..Len(subs) |-> SubText(subs[i])], <<"\n">>)

InitRead ==
  /\ pc = "call"
  /\ \E passage \in Passages, n \in 1..MaxSubs :
       \E subs \in [1..n -> SubSpecs] :
         args = [block_text |-> BlockText(passage, subs), number_in_source |-> 1,
                 source_name |-> SourceName, passage |-> passage, subs |-> subs]
  /\ ret = None
  /\ ParseIdle
  /\ AppIdle

SplitReadingBlock ==
  /\ pc = "call"
  /\ ret' = split_reading_block(args.block_text, args.number_in_source, args.source_name)
  /\ pc' = "return"
  /\ UNCHANGED <<args, parseVars, appVars>>

NextRead == SplitReadingBlock

SpecRead == InitRead /\ [][NextRead]_vars

\* the answer that stands after an answer marker at the start of a line of the sub-question
ExpectedAnswer(sp) == IF sp.layout \in {"sameline", "nextline"} THEN sp.value ELSE <<>>

ExpectedSubStem(sp) ==
  (IF sp.style = "full" THEN <<"DUN">> ELSE <<".">>) \o
    (IF sp.layout = "midline" THEN <<"wen", " ", "da", "an", "FCOLON">> \o sp.value ELSE <<"wen">>)

EndsWith(s, lit) == Len(s) >= Len(lit) /\ Slice(s, Len(s) - Len(lit) + 1, Len(s)) = lit

\* C17: the stem of each record of the fan-out is the passage, written once
\* after the prefix LB yue du li jie cai liao RB, followed by "(k) " and the
\* sub-question's own stem; with an empty passage there is no prefix and the
\* stem is "(k) " and the sub-question's stem.
C17_StemComposition ==
  pc = "return" =>
    \A i \in 1..Len(ret) :
       LET tail == <<"(">> \o args.subs[i].k \o <<")", " ">> \o ExpectedSubStem(args.subs[i])
       IN  IF args.passage = <<>>
           THEN ret[i].stem = tail
           ELSE /\ StartsWith(ret[i].stem, <<"LB", "yue", "du", "li", "jie", "cai", "liao", "RB">> \o args.passage)
                /\ EndsWith(ret[i].stem, tail)
                /\ Len(ret[i].stem) <= 8 + Len(args.passage) + 2 + Len(tail)

(***************************************************************************)
(* The store: upsert_questions, list_question_ids, the wrongbook functions *)
(***************************************************************************)
\* qhash = sha1_text(json.dumps({stem, options, answer, section}, sort_keys=True)):
\* the serialization in key order; SHA-1 is taken to be injective
\* variant: the source document is part of the fingerprint
QHash_with_source(q) ==
  <<"answer", q.answer, "options", q.options, "section", q.section, "source", q.source,
    "stem", q.stem>>

QHash(q) == <<"answer", q.answer, "options", q.options, "section", q.section, "stem", q.stem>>

\* variant: the column qhash has no UNIQUE constraint
IntegrityError_never(rows, q) == FALSE

\* qhash TEXT UNIQUE: the INSERT of q fails when its qhash is already stored
IntegrityError(rows, q) == \E r \in 1..Len(rows) : rows[r].qhash = QHash(q)

\* the loop over the records: INSERT, or skip on IntegrityError
RECURSIVE UpsertLoop(_, _, _, _, _)
UpsertLoop(rows, qs, n, inserted, skipped) ==
  IF n > Len(qs) THEN [question |-> rows, inserted |-> inserted, skipped |-> skipped]
  ELSE IF IntegrityError(rows, qs[n])
       THEN UpsertLoop(rows, qs, n + 1, inserted, skipped + 1)
       ELSE UpsertLoop(Append(rows, [qhash |-> QHash(qs[n])] @@ qs[n]), qs, n + 1, inserted + 1, skipped)

upsert_questions(rows, qs) == UpsertLoop(rows, qs, 1, 0, 0)

\* all orders of the members of a set
Orders(S) == {f \in [1..Cardinality(S) -> S] : \A i, j \in 1..Cardinality(S) : f[i] = f[j] => i = j}

\* the possible results: one list, or every permutation of it when shuffle is set
list_question_ids(rows, wb, mode, shuffle) ==
  LET ids == IF mode = "wrongbook" THEN DOMAIN wb \cap (1..Len(rows)) ELSE 1..Len(rows)
      \* ORDER BY w.last_ts ASC, q.id ASC  /  ORDER BY id ASC
      before(a, b) == IF mode = "wrongbook"
                      THEN wb[a].last_ts < wb[b].last_ts \/ (wb[a].last_ts = wb[b].last_ts /\ a < b)
                      ELSE a < b
      sorted == CHOOSE f \in Orders(ids) : \A i, j \in 1..Cardinality(ids) : i < j => before(f[i], f[j])
  IN  IF shuffle /\ ids # {} THEN Orders(ids) ELSE {sorted}

\* variant: on conflict the row is written anew, streak_correct 0
add_to_wrongbook_reset(wb, qid, ts) ==
  [q \in DOMAIN wb \cup {qid} |->
     IF q = qid THEN [streak_correct |-> 0, last_ts |-> ts] ELSE wb[q]]

\* INSERT ... VALUES (qid, ts, 0, ts) ON CONFLICT(question_id) DO UPDATE SET last_ts
add_to_wrongbook(wb, qid, ts) ==
  IF qid \in DOMAIN wb
  THEN [wb EXCEPT ![qid].last_ts = ts]
  ELSE [q \in DOMAIN wb \cup {qid} |->
          IF q = qid THEN [streak_correct |-> 0, last_ts |-> ts] ELSE wb[q]]

\* variant: the row is not deleted
remove_from_wrongbook_keep(wb, qid) == wb

remove_from_wrongbook(wb, qid) == [q \in DOMAIN wb \ {qid} |-> wb[q]]

\* variant: a wrong answer leaves the streak as it was
update_wrong_streak_no_reset(wb, qid, is_correct, ts) ==
  IF qid \notin DOMAIN wb THEN [wrongbook |-> wb, ret |-> <<>>]
  ELSE LET streak == IF is_correct THEN wb[qid].streak_correct + 1 ELSE wb[qid].streak_correct
       IN  IF streak >= 3
           THEN [wrongbook |-> remove_from_wrongbook(wb, qid), ret |-> <<3>>]
           ELSE [wrongbook |-> [wb EXCEPT ![qid] = [streak_correct |-> streak, last_ts |-> ts]],
                 ret |-> <<streak>>]

\* returns the table and the value returned, an Optional[int]: <<>> for None,
\* else <<the new streak>>, <<3>> on removal
update_wrong_streak(wb, qid, is_correct, ts) ==
  IF qid \notin DOMAIN wb THEN [wrongbook |-> wb, ret |-> <<>>]
  ELSE LET streak == IF is_correct THEN wb[qid].streak_correct + 1 ELSE 0
       IN  IF streak >= 3
           THEN [wrongbook |-> remove_from_wrongbook(wb, qid), ret |-> <<3>>]
           ELSE [wrongbook |-> [wb EXCEPT ![qid] = [streak_correct |-> streak, last_ts |-> ts]],
                 ret |-> <<streak>>]

(***************************************************************************)
(* Specification Spec: the application on a fresh database.                *)
(***************************************************************************)
\* the documents handed to the store: name and decoded text
StoreDocs ==
  << \* true/false section, the same question twice
     [name |-> "a.txt",
      plain |-> <<"pan", "duan", "ti", "\n", "1", "DUN", "zi", "\n", "da", "an", "FCOLON", "dui", "\n",
                  "2", "DUN", "zi", "\n", "da", "an", "FCOLON", "dui">>],
     \* the question of a.txt under another number, with a score and an analysis
     [name |-> "b.txt",
      plain |-> <<"pan", "duan", "ti", "\n", "7", "DUN", "zi", "FLP", "2", "FRP", "\n",
                  "da", "an", "FCOLON", "dui", "\n", "jie", "xi", "FCOLON", "zi">>],
     \* a single-choice question
     [name |-> "c.txt",
      plain |-> <<"dan", "xuan", "ti", "\n", "1", "DUN", "wen", "\n", "A", "DUN", "zi", "\n",
                  "B", "DUN", "zi", "\n", "da", "an", "FCOLON", "A">>],
     \* a question without answer, then a short-answer question with one
     [name |-> "d.txt",
      plain |-> <<"1", "DUN", "wen", "\n", "jian", "da", "ti", "\n", "2", "DUN", "wen", "\n",
                  "da", "an", "FCOLON", "dui">>],
     \* the question of c.txt again, then a new fill-in question
     [name |-> "e.txt",
      plain |-> <<"dan", "xuan", "ti", "\n", "1", "DUN", "wen", "\n", "A", "DUN", "zi", "\n",
                  "B", "DUN", "zi", "\n", "da", "an", "FCOLON", "A", "\n",
                  "tian", "kong", "ti", "\n", "2", "DUN", "wen", "\n", "da", "an", "FCOLON", "zi">>] >>

\* extract_plain_text, then parse_questions, for each document
ParsedDocs == [d \in 1..Len(StoreDocs) |-> parse_questions(StoreDocs[d].plain, StoreDocs[d].name)]

\* the documents on_import is given in Spec: a.txt and d.txt
AppDocs == {1, 4}

Init ==
  /\ pc = "app"
  /\ ParseIdle
  /\ CallIdle
  /\ question = <<>> /\ attempt = <<>> /\ wrongbook = <<>> /\ now = 1
  /\ mode_var = "normal" /\ shuffle_var = FALSE /\ qids = <<>> /\ idx = 0
  /\ current = NoQuestion
  /\ consec = [q \in 1..MaxQuestions |-> 0]

\* the timestamps that matter are last_ts and now: keep their order, renumber from 1
Renumber(wb, ts) ==
  LET used == {wb[q].last_ts : q \in DOMAIN wb} \cup {ts}
      rank(x) == Cardinality({y \in used : y < x}) + 1
  IN  [wrongbook |-> [q \in DOMAIN wb |-> [wb[q] EXCEPT !.last_ts = rank(@)]], now |-> rank(ts)]

\* load_current: with an empty list nothing is loaded and current stays as it was
load_current(ids, i, cur) == IF Len(ids) = 0 THEN cur ELSE ids[i + 1]

\* refresh_question_list(reset_idx=True) followed by load_current
RefreshAndLoad(rows, mode, shuffle) ==
  /\ qids' \in list_question_ids(rows, wrongbook, mode, shuffle)
  /\ idx' = 0
  /\ current' = load_current(qids', 0, current)

on_import(d) ==
  LET up == upsert_questions(question, ParsedDocs[d])
  IN  /\ pc = "app"
      /\ Len(up.question) <= MaxQuestions
      /\ question' = up.question
      /\ RefreshAndLoad(up.question, mode_var, shuffle_var)
      /\ UNCHANGED <<attempt, wrongbook, now, mode_var, shuffle_var, consec>>

on_mode_change(m) ==
  /\ pc = "app"
  /\ mode_var' = m
  /\ RefreshAndLoad(question, m, shuffle_var)
  /\ UNCHANGED <<question, attempt, wrongbook, now, shuffle_var, consec>>

\* the shuffle checkbutton: refresh_question_list(reset_idx=True), no load_current
on_shuffle_toggle ==
  /\ pc = "app"
  /\ shuffle_var' = ~shuffle_var
  /\ qids' \in list_question_ids(question, wrongbook, mode_var, shuffle_var')
  /\ idx' = 0
  /\ UNCHANGED <<question, attempt, wrongbook, now, mode_var, current, consec>>

Max(a, b) == IF a >= b THEN a ELSE b

Min(a, b) == IF a <= b THEN a ELSE b

\* k: the number typed into the jump entry
on_jump(k) ==
  /\ pc = "app"
  /\ Len(qids) > 0
  /\ idx' = Max(1, Min(Len(qids), k)) - 1
  /\ current' = load_current(qids, idx', current)
  /\ UNCHANGED <<question, attempt, wrongbook, now, mode_var, shuffle_var, qids, consec>>

prev ==
  /\ pc = "app"
  /\ Len(qids) > 0
  /\ idx' = Max(0, idx - 1)
  /\ current' = load_current(qids, idx', current)
  /\ UNCHANGED <<question, attempt, wrongbook, now, mode_var, shuffle_var, qids, consec>>

next ==
  /\ pc = "app"
  /\ Len(qids) > 0
  /\ idx' = Min(Len(qids) - 1, idx + 1)
  /\ current' = load_current(qids, idx', current)
  /\ UNCHANGED <<question, attempt, wrongbook, now, mode_var, shuffle_var, qids, consec>>

\* variant: in normal mode a wrong answer is not added to the wrongbook
SubmitRules_no_add(wb, mode, qid, is_correct, ts) ==
  IF mode = "normal"
  THEN [wrongbook |-> wb, refresh |-> FALSE]
  ELSE IF is_correct # None
       THEN LET r == update_wrong_streak(wb, qid, is_correct = "1", ts)
            IN  [wrongbook |-> r.wrongbook, refresh |-> r.ret = <<3>>]
       ELSE [wrongbook |-> wb, refresh |-> FALSE]

\* the wrongbook rules of submit: the table afterwards and whether the list is refreshed
SubmitRules(wb, mode, qid, is_correct, ts) ==
  IF mode = "normal"
  THEN [wrongbook |-> IF is_correct = "0" THEN add_to_wrongbook(wb, qid, ts) ELSE wb,
        refresh |-> FALSE]
  ELSE IF is_correct # None
       THEN LET r == update_wrong_streak(wb, qid, is_correct = "1", ts)
            IN  [wrongbook |-> r.wrongbook, refresh |-> r.ret = <<3>>]
       ELSE [wrongbook |-> wb, refresh |-> FALSE]

\* variant: in wrongbook mode a mark counts up without the removal at 3
MarkRules_no_removal(wb, mode, qid, correct, ts) ==
  IF mode = "normal"
  THEN [wrongbook |-> IF ~correct THEN add_to_wrongbook(wb, qid, ts) ELSE wb,
        refresh |-> FALSE]
  ELSE IF qid \in DOMAIN wb
       THEN [wrongbook |-> [wb EXCEPT ![qid] = [streak_correct |-> IF correct THEN @.streak_correct + 1 ELSE 0,
                                                last_ts |-> ts]],
             refresh |-> FALSE]
       ELSE [wrongbook |-> wb, refresh |-> FALSE]

\* the wrongbook rules of mark_subjective
MarkRules(wb, mode, qid, correct, ts) ==
  IF mode = "normal"
  THEN [wrongbook |-> IF ~correct THEN add_to_wrongbook(wb, qid, ts) ELSE wb,
        refresh |-> FALSE]
  ELSE LET r == update_wrong_streak(wb, qid, correct, ts)
       IN  [wrongbook |-> r.wrongbook, refresh |-> r.ret = <<3>>]

\* history: for a question in the wrongbook, the count of judged-correct
\* wrongbook-mode attempts in a row it has had since it was added or last judged
\* wrong in wrongbook mode; 0 for a question that is not in the wrongbook
Observe(h, wb, wbAfter, mode, qid, is_correct) ==
  [q \in DOMAIN h |->
     IF q \notin DOMAIN wbAfter THEN 0
     ELSE IF q # qid THEN h[q]
     ELSE IF q \notin DOMAIN wb THEN 0
     ELSE IF mode = "wrongbook" /\ is_correct = "1" THEN h[q] + 1
     ELSE IF mode = "wrongbook" /\ is_correct = "0" THEN 0
     ELSE h[q]]

\* variant: after the refresh the index stays where it was
Attempted_no_clamp(qid, is_correct, rules, ts) ==
  /\ attempt' = <<[is_correct |-> is_correct]>>
  /\ wrongbook' = Renumber(rules.wrongbook, ts).wrongbook
  /\ now' = Renumber(rules.wrongbook, ts).now
  /\ IF rules.refresh
     THEN /\ qids' \in list_question_ids(question, wrongbook', mode_var, shuffle_var)
          /\ idx' = idx
     ELSE UNCHANGED <<qids, idx>>
  /\ consec' = Observe(consec, wrongbook, rules.wrongbook, mode_var, qid, is_correct)
  /\ UNCHANGED <<question, mode_var, shuffle_var, current>>

\* record_attempt, the wrongbook rules, and the refresh after a removal
Attempted(qid, is_correct, rules, ts) ==
  /\ attempt' = <<[is_correct |-> is_correct]>>
  /\ wrongbook' = Renumber(rules.wrongbook, ts).wrongbook
  /\ now' = Renumber(rules.wrongbook, ts).now
  /\ IF rules.refresh
     THEN /\ qids' \in list_question_ids(question, wrongbook', mode_var, shuffle_var)
          /\ idx' = IF idx >= Len(qids') THEN Max(0, Len(qids') - 1) ELSE idx
     ELSE UNCHANGED <<qids, idx>>
  /\ consec' = Observe(consec, wrongbook, rules.wrongbook, mode_var, qid, is_correct)
  /\ UNCHANGED <<question, mode_var, shuffle_var, current>>

submit ==
  /\ pc = "app"
  /\ current # NoQuestion
  /\ \E ts \in {now, now + 1} :
       LET q == question[current]
       IN  \E single_selected \in IF q.qtype # "multi" THEN {<<>>} \cup {<<c>> : c \in Selectable(q)} ELSE {<<>>},
              multi_selected \in IF q.qtype = "multi" THEN SUBSET Selectable(q) ELSE {{}},
              text_answer \in IF Len(q.options) = 0 THEN TypedAnswers ELSE {<<>>} :
             LET ua == get_user_answer(q, single_selected, multi_selected, text_answer)
             IN  Attempted(current, ua.is_correct,
                           SubmitRules(wrongbook, mode_var, current, ua.is_correct, ts), ts)

mark_subjective(correct) ==
  /\ pc = "app"
  /\ current # NoQuestion
  /\ \E ts \in {now, now + 1} :
       Attempted(current, IF correct THEN "1" ELSE "0",
                    MarkRules(wrongbook, mode_var, current, correct, ts), ts)

Next ==
  \/ \E d \in AppDocs : on_import(d) /\ UNCHANGED <<pc, parseVars, callVars>>
  \/ \E m \in {"normal", "wrongbook"} : on_mode_change(m) /\ UNCHANGED <<pc, parseVars, callVars>>
  \/ on_shuffle_toggle /\ UNCHANGED <<pc, parseVars, callVars>>
  \/ \E k \in 0..MaxQuestions + 1 : on_jump(k) /\ UNCHANGED <<pc, parseVars, callVars>>
  \/ prev /\ UNCHANGED <<pc, parseVars, callVars>>
  \/ next /\ UNCHANGED <<pc, parseVars, callVars>>
  \/ submit /\ UNCHANGED <<pc, parseVars, callVars>>
  \/ \E correct \in BOOLEAN : mark_subjective(correct) /\ UNCHANGED <<pc, parseVars, callVars>>

Spec == Init /\ [][Next]_vars

\* the step is an attempt on the loaded question that was judged as is_correct
JudgedSubmit(is_correct) == attempt' = <<[is_correct |-> is_correct]>> /\ submit

JudgedAttempt(is_correct) ==
  /\ attempt' = <<[is_correct |-> is_correct]>>
  /\ submit \/ mark_subjective(is_correct = "1")

\* C7: in normal mode, a submit that is judged wrong leaves the question in
\* the wrongbook: inserted with streak_correct 0 if it was absent, still there
\* if it was present.
C7_WrongSubmitAdds ==
  [][(mode_var = "normal" /\ JudgedSubmit("0")) =>
       /\ current \in DOMAIN wrongbook'
       /\ current \notin DOMAIN wrongbook => wrongbook'[current].streak_correct = 0]_vars

\* the loaded question has a standard answer, the newest attempt was judged
\* wrong in normal mode, and the question stands in the wrongbook with streak 0
\* and the timestamp of that attempt
C7_Witness ==
  /\ pc = "app"
  /\ mode_var = "normal"
  /\ attempt = <<[is_correct |-> "0"]>>
  /\ current \in DOMAIN wrongbook
  /\ question[current].answer # <<>>
  /\ wrongbook[current].streak_correct = 0
  /\ wrongbook[current].last_ts = now

\* C8: a question leaves the wrongbook exactly on its third judged-correct
\* wrongbook-mode attempt in a row (counted since it was added or last judged
\* wrong in wrongbook mode): no other step removes it, and that step always
\* does; after one or two such attempts it is still there.
C8_RemovedOnThirdCorrect ==
  [][\A q \in DOMAIN wrongbook :
       q \notin DOMAIN wrongbook' <=>
         (mode_var = "wrongbook" /\ current = q /\ consec[q] = 2 /\ JudgedAttempt("1"))]_vars

\* in wrongbook mode the loaded question has just been answered right and is
\* gone from the wrongbook and from the list, which still shows another one
C8_Witness ==
  /\ pc = "app"
  /\ mode_var = "wrongbook"
  /\ attempt = <<[is_correct |-> "1"]>>
  /\ current # NoQuestion
  /\ current \notin DOMAIN wrongbook
  /\ Len(qids) > 0
  /\ \A i \in 1..Len(qids) : qids[i] # current

\* C9: in wrongbook mode, an attempt judged wrong on a question that is in the
\* wrongbook sets its streak_correct to 0 and leaves it in the wrongbook.
C9_WrongResetsStreak ==
  [][(mode_var = "wrongbook" /\ current \in DOMAIN wrongbook /\ JudgedAttempt("0")) =>
       /\ current \in DOMAIN wrongbook'
       /\ wrongbook'[current].streak_correct = 0]_vars

\* in wrongbook mode the newest attempt was judged wrong and the loaded
\* question stands in the wrongbook with streak 0 and the timestamp of that attempt
C9_Witness ==
  /\ pc = "app"
  /\ mode_var = "wrongbook"
  /\ attempt = <<[is_correct |-> "0"]>>
  /\ current \in DOMAIN wrongbook
  /\ wrongbook[current].streak_correct = 0
  /\ wrongbook[current].last_ts = now
  /\ \E i \in 1..Len(qids) : qids[i] = current

\* C13: a submit on a question whose qtype is short, whatever is typed and
\* whatever its standard answer, records an attempt with is_correct None and
\* leaves the wrongbook as it was.
C13_ShortNeverGraded ==
  [][(current # NoQuestion /\ question[current].qtype = "short" /\ submit)
     => (attempt' = <<[is_correct |-> None]>> /\ wrongbook' = wrongbook)]_vars

\* C19: after mark_subjective(False) on the loaded question, in either mode,
\* the newest attempt has is_correct 0 and the question is in the wrongbook;
\* also in wrongbook mode when the loaded question is no longer in the wrongbook.
C19_MarkedWrongIsInWrongbook ==
  [][(current # NoQuestion /\ mark_subjective(FALSE))
     => (attempt' = <<[is_correct |-> "0"]>> /\ current \in DOMAIN wrongbook')]_vars

\* C21: every wrongbook row has streak_correct 0, 1 or 2.
C21_StreakRange ==
  \A q \in DOMAIN wrongbook : wrongbook[q].streak_correct \in {0, 1, 2}

\* a row that has reached streak 2 in wrongbook mode, its question still listed
C21_Witness ==
  /\ pc = "app"
  /\ mode_var = "wrongbook"
  /\ attempt = <<[is_correct |-> "1"]>>
  /\ current \in DOMAIN wrongbook
  /\ wrongbook[current].streak_correct = 2
  /\ consec[current] = 2

\* C22: an attempt in normal mode removes no wrongbook row and changes no
\* streak_correct. Judged correct or not judged, it leaves the table as it
\* was; judged wrong on a question that has a row, it changes nothing but the
\* last_ts of that row (the other rows keep their order in time).
C22_NormalModeKeepsStreaks ==
  [][(/\ mode_var = "normal"
      /\ wrongbook' # wrongbook      \* a step that keeps the table satisfies all below
      /\ (submit \/ \E correct \in BOOLEAN : mark_subjective(correct))) =>
       /\ DOMAIN wrongbook \subseteq DOMAIN wrongbook'
       /\ \A q \in DOMAIN wrongbook : wrongbook'[q].streak_correct = wrongbook[q].streak_correct
       /\ attempt' # <<[is_correct |-> "0"]>> => wrongbook' = wrongbook
       /\ (attempt' = <<[is_correct |-> "0"]>> /\ current \in DOMAIN wrongbook) =>
            /\ DOMAIN wrongbook' = DOMAIN wrongbook
            /\ \A q, r \in DOMAIN wrongbook \ {current} :
                 (wrongbook'[q].last_ts < wrongbook'[r].last_ts)
                   <=> (wrongbook[q].last_ts < wrongbook[r].last_ts)]_vars

\* the only question stored has streak 2 and was then answered wrong in
\* normal mode: the streak is still 2
C22_Witness ==
  /\ pc = "app"
  /\ mode_var = "normal"
  /\ Len(question) = 1
  /\ attempt = <<[is_correct |-> "0"]>>
  /\ current \in DOMAIN wrongbook
  /\ wrongbook[current].streak_correct = 2
  /\ wrongbook[current].last_ts = now

\* C23: the index is never negative; it is below the length of a non-empty
\* list and 0 with an empty list.
C23_IndexInRange ==
  /\ 0 <= idx
  /\ Len(qids) > 0 => idx < Len(qids)
  /\ Len(qids) = 0 => idx = 0

\* in wrongbook mode the loaded question has just left the wrongbook, one
\* question is still listed and the index is on it
C23_Witness ==
  /\ pc = "app"
  /\ mode_var = "wrongbook"
  /\ attempt = <<[is_correct |-> "1"]>>
  /\ current # NoQuestion
  /\ current \notin DOMAIN wrongbook
  /\ Len(qids) = 1
  /\ qids[1] # current
  /\ idx = 0

\* C24: with a non-empty list, the loaded question is the one at qids[idx].
C24_CurrentIsListed ==
  Len(qids) > 0 => current = qids[idx + 1]

(***************************************************************************)
(* Specification SpecStore: upsert_questions called again and again on a   *)
(* fresh database, each time with the records of one of the documents.     *)
(***************************************************************************)
\* no call made yet: nothing offered, nothing inserted or skipped
InitStore ==
  /\ pc = "store"
  /\ ParseIdle
  /\ args = <<>> /\ ret = <<0, 0>>
  /\ AppIdle

\* args: the records offered; ret: the (inserted, skipped) returned
UpsertQuestions(d) ==
  LET up == upsert_questions(question, ParsedDocs[d])
  IN  /\ pc = "store"
      /\ args' = ParsedDocs[d]
      /\ ret' = <<up.inserted, up.skipped>>
      /\ question' = up.question
      /\ UNCHANGED <<pc, parseVars, attempt, wrongbook, now, mode_var, shuffle_var, qids, idx,
                     current, consec>>

NextStore == \E d \in 1..Len(StoreDocs) : UpsertQuestions(d)

SpecStore == InitStore /\ [][NextStore]_vars

\* every record of every document
AllRecords == UNION {{ParsedDocs[d][i] : i \in 1..Len(ParsedDocs[d])} : d \in 1..Len(StoreDocs)}

SameQuestion(a, b) ==
  a.stem = b.stem /\ a.options = b.options /\ a.answer = b.answer /\ a.section = b.section

\* C5: the fingerprint depends only on stem, options, answer and section: a
\* stored row and a record that agree on these four have the same qhash,
\* whatever their source, number, analysis, score and qtype, and the qhash of
\* a stored row is the one computed again from the row.
C5_FingerprintBasis ==
  \A r \in 1..Len(question) :
     /\ question[r].qhash = QHash(question[r])
     /\ \A q \in AllRecords : SameQuestion(question[r], q) => question[r].qhash = QHash(q)

\* a stored row and a record of another document with the same four fields,
\* another number, another score and another analysis
C5_Witness ==
  /\ pc = "store"
  /\ \E r \in 1..Len(question) : \E q \in AllRecords :
        /\ SameQuestion(question[r], q)
        /\ question[r].source # q.source
        /\ question[r].number_in_source # q.number_in_source
        /\ question[r].score # q.score
        /\ question[r].analysis # q.analysis
        /\ question[r].qhash = QHash(q)

Hashes(qs) == {QHash(qs[i]) : i \in 1..Len(qs)}

BlockLines ==
  { <<"A", "DUN", "zi">>,                              \* an inline option
    <<"B", ".", " ", "zi", " ", " ", "wen">>,          \* an inline option with blanks
    <<"A", ")", "wen">>,                               \* an inline option, letter A again
    <<"a", "DUN", "zi">>,                              \* a lower-case letter: no option
    <<"zi">>,                                          \* text
    <<"A", "DUN">>,                                    \* an option letter alone
    <<"da", "an", "FCOLON", "A">>,                     \* a marker with its answer
    <<"can", "kao", "da", "an">>,                      \* a marker alone
    <<"zheng", "que", "da", "an", ":", " ">>,          \* a marker, a colon, a blank
    <<"jie", "xi", "FCOLON", "shuo">>,                 \* an analysis line
    <<"da", "an", "jie", "xi", "FCOLON", "shuo">>,     \* an analysis line, longer marker
    <<>> }                                             \* a blank line

FirstLine == <<"1", "DUN", "wen">>

InitBlock ==
  /\ pc = "call"
  /\ \E n \in 0..MaxBlockLines : \E ls \in [1..n -> BlockLines] :
       args = [lines |-> ls, block_text |-> Join(<<FirstLine>> \o ls, <<"\n">>)]
  /\ ret = None
  /\ ParseIdle
  /\ AppIdle

ParseBlockCommon ==
  /\ pc = "call"
  /\ ret' = parse_block_common(args.block_text, 1, "weizhi", SourceName)
  /\ pc' = "block"
  /\ UNCHANGED <<args, parseVars, appVars>>

\* answer, next_idx = parse_answer_from_lines(lines, start_idx); start_idx is
\* 1-based here, so it ranges up to Len(lines) + 1
ParseAnswerFromLines ==
  /\ pc = "call"
  /\ \E start_idx \in 1..Len(args.lines) + 1 :
       ret' = [start_idx |-> start_idx,
               result |-> parse_answer_from_lines(args.lines, start_idx)]
  /\ pc' = "answer"
  /\ UNCHANGED <<args, parseVars, appVars>>

\* on_import of a document that is this block: no heading, so the section is
\* unknown; the record goes to the empty table and is loaded
ImportBlock ==
  /\ pc = "block"
  /\ question' = upsert_questions(question, ret).question
  /\ RefreshAndLoad(question', mode_var, shuffle_var)
  /\ pc' = "app"
  /\ args' = [lines |-> <<>>, block_text |-> <<>>]
  /\ ret' = <<>>
  /\ UNCHANGED <<parseVars, attempt, wrongbook, now, mode_var, shuffle_var, consec>>

NextBlock ==
  \/ ParseBlockCommon
  \/ ParseAnswerFromLines
  \/ ImportBlock
  \/ \E m \in {"normal", "wrongbook"} : on_mode_change(m) /\ UNCHANGED <<pc, parseVars, callVars>>
  \/ submit /\ UNCHANGED <<pc, parseVars, callVars>>
  \/ \E correct \in BOOLEAN : mark_subjective(correct) /\ UNCHANGED <<pc, parseVars, callVars>>

SpecBlock == InitBlock /\ [][NextBlock]_vars

\* the line begins with one of the three answer markers
BeginsWithAnswerMarker(l) ==
  \/ StartsWith(l, <<"zheng", "que", "da", "an">>)
  \/ StartsWith(l, <<"can", "kao", "da", "an">>)
  \/ StartsWith(l, <<"da", "an">>)

\* the line as the block parser sees it: blank runs are one blank, no blank at either end
Cleaned(l) == Strip(SubWsRuns(l, 1))

\* a letter A-H, a separator, then text on the same line
IsInlineOptionLine(l) ==
  /\ Len(Cleaned(l)) >= 3
  /\ \E k \in 1..8 : Cleaned(l)[1] = OptionLetters[k]
  /\ Cleaned(l)[2] \in {"DUN", ".", ")"}

\* a letter A-H and a separator, nothing else
IsLoneOptionLine(l) ==
  /\ Len(Cleaned(l)) = 2
  /\ \E k \in 1..8 : Cleaned(l)[1] = OptionLetters[k]
  /\ Cleaned(l)[2] \in {"DUN", ".", ")"}

\* the lines of the option region: those before the first answer-marker line
OptionRegion(ls) ==
  LET at == {j \in 1..Len(ls) : BeginsWithAnswerMarker(Cleaned(ls[j]))}
  IN  IF at = {} THEN ls
      ELSE Slice(ls, 1, (CHOOSE j \in at : \A k \in at : j <= k) - 1)

\* C12: for a block whose option lines are all inline (no line of the option
\* region is an option letter alone), the options returned are the (key, text)
\* pairs of the inline option lines in the order of the lines: as many options
\* as lines, the k-th option has the letter of the k-th line and the text that
\* follows its separator.
C12_InlineOptionsInOrder ==
  (pc = "block" /\ \A j \in 1..Len(OptionRegion(args.lines)) : ~IsLoneOptionLine(OptionRegion(args.lines)[j])) =>
     LET inline == SelectSeq(OptionRegion(args.lines), IsInlineOptionLine)
     IN  /\ Len(ret) = 1
         /\ Len(ret[1].options) = Len(inline)
         /\ \A k \in 1..Len(inline) :
              /\ ret[1].options[k].key = Cleaned(inline[k])[1]
              /\ ret[1].options[k].text = Strip(Slice(Cleaned(inline[k]), 3, Len(Cleaned(inline[k]))))

\* three inline options, the letter A twice, text between them
C12_Witness ==
  /\ pc = "block"
  /\ args.lines = << <<"B", ".", " ", "zi", " ", " ", "wen">>, <<"A", "DUN", "zi">>, <<"A", ")", "wen">> >>
  /\ ret[1].options = << [key |-> "B", text |-> <<"zi", " ", "wen">>],
                         [key |-> "A", text |-> <<"zi">>],
                         [key |-> "A", text |-> <<"wen">>] >>

\* the text after the first colon of the line, without the blanks around it
\* (empty when the line has no colon)
AfterColon(l) ==
  LET at == {k \in 1..Len(l) : l[k] = ":" \/ l[k] = "FCOLON"}
  IN  IF at = {} THEN <<>>
      ELSE Strip(Slice(l, (CHOOSE k \in at : \A j \in at : k <= j) + 1, Len(l)))

\* C20: scanning from start_idx, the scan stops at the first line that begins
\* with an answer marker. If that line has a colon followed by non-blank
\* text, that text is the answer and the scan resumes on the next line; else
\* the answer is the first non-blank line after the marker and the scan
\* resumes on the line after that one. With no marker line the answer is empty
\* and the resume index is the number of lines (Len(lines) + 1 with indices
\* that start at 1).
C20_AnswerScan ==
  pc = "answer" =>
    LET lines == args.lines
        marks == {j \in ret.start_idx..Len(lines) : BeginsWithAnswerMarker(lines[j])}
    IN  IF marks = {}
        THEN ret.result = [answer |-> <<>>, next |-> Len(lines) + 1]
        ELSE LET j == CHOOSE j \in marks : \A k \in marks : j <= k
                 after == {k \in j + 1..Len(lines) : Strip(lines[k]) # <<>>}
             IN  IF AfterColon(lines[j]) # <<>>
                 THEN ret.result = [answer |-> AfterColon(lines[j]), next |-> j + 1]
                 ELSE after # {} =>
                        LET k == CHOOSE k \in after : \A h \in after : k <= h
                        IN  ret.result = [answer |-> Strip(lines[k]), next |-> k + 1]

\* a marker with a colon and a blank, a blank line, then the answer on the
\* third line: the scan resumes after the third line
C20_Witness ==
  /\ pc = "answer"
  /\ args.lines = << <<"zheng", "que", "da", "an", ":", " ">>, <<>>, <<"zi">> >>
  /\ ret.start_idx = 1
  /\ ret.result = [answer |-> <<"zi">>, next |-> 4]

\* C15: a block without answer-marker line gives one record whose answer is
\* empty; and a submit on a question whose standard answer is empty, whatever
\* is selected or typed and in either mode, records an attempt with is_correct
\* None and leaves the wrongbook as it was (nothing added, changed or removed).
C15_NoAnswerNoJudgement ==
  /\ [](( /\ pc = "block"
          /\ \A j \in 1..Len(args.lines) : ~BeginsWithAnswerMarker(Cleaned(args.lines[j])) )
        => (Len(ret) = 1 /\ ret[1].answer = <<>>))
  /\ [][(current # NoQuestion /\ question[current].answer = <<>> /\ submit)
        => (attempt' = <<[is_correct |-> None]>> /\ wrongbook' = wrongbook)]_vars

\* a question without standard answer that was marked wrong by hand, then
\* answered in wrongbook mode: the attempt is not judged, the entry is intact
C15_Witness ==
  /\ pc = "app"
  /\ current # NoQuestion
  /\ question[current].answer = <<>>
  /\ Len(question[current].options) = 2
  /\ mode_var = "wrongbook"
  /\ attempt = <<[is_correct |-> None]>>
  /\ current \in DOMAIN wrongbook
  /\ wrongbook[current].streak_correct = 1

\* the line begins with one of the two analysis markers
BeginsWithAnalysisMarker(l) ==
  StartsWith(l, <<"jie", "xi">>) \/ StartsWith(l, <<"da", "an", "jie", "xi">>)

\* C26: the text of an analysis line is never the record's answer: for a block
\* with a line that begins with an analysis marker and carries text, the
\* answer of the record holds none of that text.
C26_AnalysisIsNoAnswer ==
  ( /\ pc = "block"
    /\ \E j \in 1..Len(args.lines) :
         BeginsWithAnalysisMarker(Cleaned(args.lines[j])) /\ AfterColon(args.lines[j]) # <<>> )
  => \A r \in 1..Len(ret) : ~Contains(ret[r].answer, <<"shuo">>)

====
